---- MODULE Spec2Model ----
(***************************************************************************)
(* Model of the Streamlit dashboard of src/app.py (and, for the yearly     *)
(* balance, of its earlier version src/app2.py): the session/login logic,  *)
(* the cascading filters, the balance section, the top-10 ranking table    *)
(* and the Excel report layout.                                            *)
(*                                                                         *)
(* Conventions.  A DataFrame of trade records is a sequence of records     *)
(* [NOME_MUN, CO_ANO, CO_MES, NO_SH4_POR, VL_FOB].  VL_FOB is a            *)
(* non-negative integer (whole US dollars), so sums are exact; floating    *)
(* point rounding is outside the model.  A derived DataFrame (ranking      *)
(* table, df_info) is [columns |-> sequence of column names, rows |->      *)
(* sequence of functions from column name to cell].  Accented letters of   *)
(* the source strings are written without accents.                         *)
(***************************************************************************)
EXTENDS Integers, Sequences, FiniteSets, TLC

VARIABLES
    df_export_original,   \* cached result of carregar_dados(): export flow
    df_import_original,   \* cached result of carregar_dados(): import flow
    pandas_concat_ordena, \* installed pandas: does concat(axis=1) sort the union index
    session_state,        \* st.session_state
    widgets,              \* stored values of the three sidebar selectboxes
    evento,               \* the user interaction that triggered the last script run
    chamadas,             \* functions entered during the last script run(s)
    tela,                 \* what the last script run rendered
    mes_anterior,         \* mes_selecionado of the run before the last one
    df_filtrado,          \* argument of criar_tabela_top10_com_totais
    tabela_final,         \* its return value
    fase                  \* position in the life cycle of the checked scenario

vars == <<df_export_original, df_import_original, pandas_concat_ordena,
          session_state, widgets, evento, chamadas, tela, mes_anterior,
          df_filtrado, tabela_final, fase>>

dashVars == <<session_state, widgets, evento, chamadas, tela, mes_anterior>>
dataVars == <<df_export_original, df_import_original, pandas_concat_ordena>>
rankVars == <<df_filtrado, tabela_final>>

-----------------------------------------------------------------------------
(* Bounds of the model *)

MaxBase == 10        \* largest number of distinct products initially in df_filtrado
MaxAppend == 2       \* records appended to df_filtrado after that
MaxVal == 2          \* largest VL_FOB of an appended record
MaxLinhasDash == 2   \* rows in both CSV files together, interactive session
MaxLinhasView == 3   \* rows in both CSV files together, single rendering

MaxProdutos == MaxBase + MaxAppend

-----------------------------------------------------------------------------
(* Generic helpers *)

Min(a, b) == IF a <= b THEN a ELSE b
Max(a, b) == IF a >= b THEN a ELSE b

RECURSIVE GCD(_, _)
GCD(a, b) == IF b = 0 THEN a ELSE GCD(b, a % b)

\* An exact fraction n/d (d > 0) in lowest terms, standing for a float.
Frac(n, d) == IF n = 0 THEN <<0, 1>> ELSE <<n \div GCD(n, d), d \div GCD(n, d)>>

\* sorted(set of integers)
RECURSIVE SortedInts(_)
SortedInts(S) ==
    IF S = {} THEN <<>>
    ELSE LET m == CHOOSE x \in S : \A y \in S : x <= y
         IN  <<m>> \o SortedInts(S \ {m})

\* Series.sum() of the VL_FOB column
RECURSIVE SumVL(_)
SumVL(df) == IF df = <<>> THEN 0 ELSE df[1].VL_FOB + SumVL(Tail(df))

\* df[df[col] == v]
Onde(df, col, v) == SelectSeq(df, LAMBDA r : r[col] = v)

Unicos(df, col) == {df[i][col] : i \in DOMAIN df}

-----------------------------------------------------------------------------
(* Names.  Strings have no order in TLA+; the lexicographic order of the    *)
(* product and municipality names is the order of these lists.              *)

ProdutoNomes == [i \in 1..MaxProdutos |-> "P" \o ToString(100 + i)]

MunicipioNomes == <<"Apucarana", "Curitiba">>

\* sorted(set of names), the names ordered as in the list nomes
SortedNomes(S, nomes) ==
    LET idx == SortedInts({i \in DOMAIN nomes : nomes[i] \in S})
    IN  [k \in DOMAIN idx |-> nomes[idx[k]]]

-----------------------------------------------------------------------------
(* criar_tabela_top10_com_totais, src/app.py:47-62 *)

TopN == 10

DataFrameVazio == [columns |-> <<>>, rows |-> <<>>]

Empty(tabela) == tabela.rows = <<>> \/ tabela.columns = <<>>

\* df.groupby('NO_SH4_POR')['VL_FOB'].sum(): one entry per product, in key order
GroupByProduto(df) ==
    LET chaves == SortedNomes(Unicos(df, "NO_SH4_POR"), ProdutoNomes)
    IN  [i \in DOMAIN chaves |->
            [Produto |-> chaves[i],
             Valor   |-> SumVL(Onde(df, "NO_SH4_POR", chaves[i]))]]

\* .sort_values(ascending=False): equal values keep their previous order
\* (numpy sorts arrays this small by insertion).
RECURSIVE InsereDesc(_, _)
InsereDesc(s, x) ==
    IF s = <<>> THEN <<x>>
    ELSE IF s[1].Valor >= x.Valor THEN <<s[1]>> \o InsereDesc(Tail(s), x)
    ELSE <<x>> \o s

\* Mutation of SortValuesDesc: the groups stay in key order.
SemOrdenar(s) == s

RECURSIVE SortValuesDesc(_)
SortValuesDesc(s) ==
    IF s = <<>> THEN <<>>
    ELSE InsereDesc(SortValuesDesc(SubSeq(s, 1, Len(s) - 1)), s[Len(s)])

RECURSIVE SomaValor(_)
SomaValor(s) == IF s = <<>> THEN 0 ELSE s[1].Valor + SomaValor(Tail(s))

\* Mutation of SomaDemais: the residual starts one group too late.
SomaDemaisDesde12(produtos_agrupados) ==
    SomaValor(SubSeq(produtos_agrupados, TopN + 2, Len(produtos_agrupados)))

\* produtos_agrupados.iloc[10:]['Valor (US$)'].sum()
SomaDemais(produtos_agrupados) ==
    SomaValor(SubSeq(produtos_agrupados, TopN + 1, Len(produtos_agrupados)))

\* Mutation of Percentual: the division is not guarded, 0/0 is NaN.
PercentualSemGuarda(valor, total_geral) ==
    IF total_geral = 0 THEN <<0, 0>> ELSE Frac(valor * 100, total_geral)

\* (Valor / total_geral) * 100 if total_geral > 0 else 0
Percentual(valor, total_geral) ==
    IF total_geral > 0 THEN Frac(valor * 100, total_geral) ELSE Frac(0, 1)

ColunasTabela == <<"#", "Produto", "Valor (US$)", "Percentual (%)">>

LinhaTabela(rank, produto, valor, total_geral) ==
    [c \in {"#", "Produto", "Valor (US$)", "Percentual (%)"} |->
        CASE c = "#" -> rank
          [] c = "Produto" -> produto
          [] c = "Valor (US$)" -> valor
          [] OTHER -> Percentual(valor, total_geral)]

criar_tabela_top10_com_totais(df) ==
    IF Len(df) = 0 THEN DataFrameVazio
    ELSE
    LET Tabela(total_geral, top_10, soma_demais) ==
            [columns |-> ColunasTabela,
             rows |-> [i \in DOMAIN top_10 |->
                          LinhaTabela(ToString(i), top_10[i].Produto,
                                      top_10[i].Valor, total_geral)] \o
                      <<LinhaTabela("", "Demais Produtos", soma_demais, total_geral),
                        LinhaTabela("", "TOTAL", total_geral, total_geral)>>]
        Agrupados(total_geral, produtos_agrupados) ==
            Tabela(total_geral,
                   SubSeq(produtos_agrupados, 1, Min(TopN, Len(produtos_agrupados))),
                   SomaDemais(produtos_agrupados))
    IN  Agrupados(SumVL(df), SortValuesDesc(GroupByProduto(df)))

-----------------------------------------------------------------------------
(* Module-level constants of src/app.py *)

VALID_CREDENTIALS ==
    [e \in {"especializa@seic.pr.gov.br", "especializaparana@seic.pr.gov.br"} |->
        IF e = "especializa@seic.pr.gov.br" THEN "especializa1234" ELSE "seic1234"]

\* the dict {1: "Janeiro", ..., 12: "Dezembro"} as a sequence
meses_map == <<"Janeiro", "Fevereiro", "Marco", "Abril", "Maio", "Junho",
               "Julho", "Agosto", "Setembro", "Outubro", "Novembro", "Dezembro">>

meses_map_rev(nome) == CHOOSE k \in DOMAIN meses_map : meses_map[k] = nome

TodosOsAnos == 0                    \* stands for the option "Todos os anos"
TodosOsMeses == "Todos os meses"
NenhumMunicipio == "None"           \* selectbox over an empty option list

-----------------------------------------------------------------------------
(* gerar_arquivo_excel, src/app.py:64-76.  A sheet is a function from the   *)
(* 0-based row number to the row's cells; a blank row is <<>>.              *)

StartrowInfo == 0
StartrowTabela == 4

df_info(municipio, periodo) ==
    [columns |-> <<"Filtro", "Selecao">>,
     rows |-> <<[c \in {"Filtro", "Selecao"} |->
                    IF c = "Filtro" THEN "Municipio" ELSE municipio],
                [c \in {"Filtro", "Selecao"} |->
                    IF c = "Filtro" THEN "Periodo" ELSE periodo]>>]

\* the rows DataFrame.to_excel(index=False) writes: the header, then the data
LinhasExcel(df) ==
    IF Len(df.columns) = 0 THEN <<>>
    ELSE <<df.columns>> \o
         [i \in DOMAIN df.rows |->
             [j \in DOMAIN df.columns |-> df.rows[i][df.columns[j]]]]

SheetVazia == [r \in {} |-> <<>>]

to_excel(sheet, df, startrow) ==
    LET ls == LinhasExcel(df)
        fim == startrow + Len(ls) - 1
        ultimo == Max(Cardinality(DOMAIN sheet) - 1, fim)
    IN  [r \in 0..ultimo |->
            IF r \in startrow..fim THEN ls[r - startrow + 1]
            ELSE IF r \in DOMAIN sheet THEN sheet[r]
            ELSE <<>>]

\* Mutation of gerar_arquivo_excel: the import table is written one row lower.
gerar_arquivo_excel_deslocado(df_exp, df_imp, municipio, periodo) ==
    [Exportacoes |-> to_excel(to_excel(SheetVazia, df_info(municipio, periodo),
                                       StartrowInfo), df_exp, StartrowTabela),
     Importacoes |-> to_excel(to_excel(SheetVazia, df_info(municipio, periodo),
                                       StartrowInfo), df_imp, StartrowTabela + 1)]

gerar_arquivo_excel(df_exp, df_imp, municipio, periodo) ==
    [Exportacoes |-> to_excel(to_excel(SheetVazia, df_info(municipio, periodo),
                                       StartrowInfo), df_exp, StartrowTabela),
     Importacoes |-> to_excel(to_excel(SheetVazia, df_info(municipio, periodo),
                                       StartrowInfo), df_imp, StartrowTabela)]

-----------------------------------------------------------------------------
(* main_dashboard: sidebar filters, src/app.py:106-127 *)

\* st.selectbox: the stored value when it is one of the options, else the first
\* option (None when there is no option)
Selectbox(options, guardado, nenhum) ==
    IF \E i \in DOMAIN options : options[i] = guardado THEN guardado
    ELSE IF Len(options) = 0 THEN nenhum
    ELSE options[1]

\* sorted(df_export_original['NOME_MUN'].unique())
ListaMunicipios(exp_o, imp_o) ==
    SortedNomes(Unicos(exp_o, "NOME_MUN"), MunicipioNomes)

\* sorted(pd.concat([export CO_ANO, import CO_ANO]).unique())
AnosDisponiveis(exp_o, imp_o) ==
    SortedInts(Unicos(exp_o, "CO_ANO") \cup Unicos(imp_o, "CO_ANO"))

\* Mutation of MesSelecionado: the month selectbox is read whatever the year.
MesSelecionadoSempre(ano_selecionado, mes_guardado) ==
    Selectbox(<<TodosOsMeses>> \o meses_map, mes_guardado, TodosOsMeses)

\* lines 112-115: the month selectbox exists only under a specific year
MesSelecionado(ano_selecionado, mes_guardado) ==
    IF ano_selecionado # TodosOsAnos
    THEN Selectbox(<<TodosOsMeses>> \o meses_map, mes_guardado, TodosOsMeses)
    ELSE TodosOsMeses

FiltroAnoAplicado(ano_selecionado) == ano_selecionado # TodosOsAnos

\* lines 121 and 124: the month predicate is nested in the year predicate
FiltroMesAplicado(ano_selecionado, mes_selecionado) ==
    ano_selecionado # TodosOsAnos /\ mes_selecionado # TodosOsMeses

\* lines 119-127, for one flow
Filtrar(df_original, municipio, ano_selecionado, mes_selecionado) ==
    LET d1 == Onde(df_original, "NOME_MUN", municipio)
        d2 == IF FiltroAnoAplicado(ano_selecionado)
              THEN Onde(d1, "CO_ANO", ano_selecionado) ELSE d1
    IN  IF FiltroMesAplicado(ano_selecionado, mes_selecionado)
        THEN Onde(d2, "CO_MES", meses_map_rev(mes_selecionado)) ELSE d2

\* lines 131-133
PeriodoStr(ano_selecionado, mes_selecionado) ==
    LET ano_str == IF ano_selecionado = TodosOsAnos THEN "Todos os anos"
                   ELSE ToString(ano_selecionado)
    IN  IF ano_selecionado # TodosOsAnos /\ mes_selecionado # TodosOsMeses
        THEN ano_str \o " - " \o mes_selecionado ELSE ano_str

-----------------------------------------------------------------------------
(* main_dashboard: "Balanca Comercial", src/app.py:136-183 *)

\* df.groupby(col)['VL_FOB'].sum(): a Series, one entry per key, keys ascending
GroupBySoma(df, col) ==
    LET chaves == SortedInts(Unicos(df, col))
    IN  [i \in DOMAIN chaves |->
            [chave |-> chaves[i], soma |-> SumVL(Onde(df, col, chaves[i]))]]

Chaves(serie) == [i \in DOMAIN serie |-> serie[i].chave]
ChavesSet(serie) == {serie[i].chave : i \in DOMAIN serie}

\* the entry of a Series at key k after .fillna(0)
ValorOu0(serie, k) ==
    IF k \in ChavesSet(serie)
    THEN serie[CHOOSE i \in DOMAIN serie : serie[i].chave = k].soma
    ELSE 0

\* The row index of pd.concat([a, b], axis=1): the union of the two indexes.
\* pandas 1.x returns it sorted; pandas 2.x returns the keys of a followed by
\* the keys only b has.
ConcatIndex(a, b, ordena) ==
    IF ordena THEN SortedInts(ChavesSet(a) \cup ChavesSet(b))
    ELSE Chaves(a) \o SelectSeq(Chaves(b), LAMBDA k : k \notin ChavesSet(a))

LinhaBalanca(indice, exportado, importado) ==
    [indice |-> indice, Total_Exportado |-> exportado,
     Total_Importado |-> importado, Saldo_Comercial |-> exportado - importado]

\* pd.concat([exp, imp], axis=1).fillna(0) with the Saldo Comercial column
ConcatFillna(exp_s, imp_s, ordena) ==
    LET idx == ConcatIndex(exp_s, imp_s, ordena)
    IN  [i \in DOMAIN idx |->
            LinhaBalanca(idx[i], ValorOu0(exp_s, idx[i]), ValorOu0(imp_s, idx[i]))]

\* Mutation of Reindex12: only the months that have records are kept.
SemReindex(balanca) ==
    LET presentes == SelectSeq(balanca, LAMBDA l : l.indice \in 1..12)
        ordem == SortedInts({presentes[i].indice : i \in DOMAIN presentes})
    IN  [i \in DOMAIN ordem |->
            LET l == presentes[CHOOSE j \in DOMAIN presentes :
                                  presentes[j].indice = ordem[i]]
            IN  LinhaBalanca(meses_map[ordem[i]], l.Total_Exportado, l.Total_Importado)]

\* balanca.reindex(range(1, 13), fill_value=0), then index.map(meses_map)
Reindex12(balanca) ==
    [m \in 1..12 |->
        IF \E i \in DOMAIN balanca : balanca[i].indice = m
        THEN LET l == balanca[CHOOSE i \in DOMAIN balanca : balanca[i].indice = m]
             IN  LinhaBalanca(meses_map[m], l.Total_Exportado, l.Total_Importado)
        ELSE LinhaBalanca(meses_map[m], 0, 0)]

Metricas(df_export, df_import) ==
    [exportado |-> SumVL(df_export), importado |-> SumVL(df_import),
     saldo |-> SumVL(df_export) - SumVL(df_import)]

\* lines 141-145
BalancaAnual(df_export, df_import, ordena) ==
    ConcatFillna(GroupBySoma(df_export, "CO_ANO"),
                 GroupBySoma(df_import, "CO_ANO"), ordena)

\* lines 163-169
BalancaMensal(df_export, df_import, ordena) ==
    Reindex12(ConcatFillna(GroupBySoma(df_export, "CO_MES"),
                           GroupBySoma(df_import, "CO_MES"), ordena))

\* Mutation of BalancaComercial: the yearly summary is displayed even when
\* neither flow has a record.
BalancaComercialSemGuarda(ano_selecionado, mes_selecionado, df_export, df_import, ordena) ==
    IF ano_selecionado = TodosOsAnos THEN
        [ramo |-> "anual", exibida |-> TRUE,
         linhas |-> BalancaAnual(df_export, df_import, ordena)]
    ELSE IF mes_selecionado = TodosOsMeses THEN
        [ramo |-> "mensal", exibida |-> TRUE,
         metricas |-> Metricas(df_export, df_import),
         linhas |-> BalancaMensal(df_export, df_import, ordena)]
    ELSE [ramo |-> "mes", exibida |-> TRUE,
          metricas |-> Metricas(df_export, df_import)]

\* The whole section: which branch ran, and what it displayed.
BalancaComercial(ano_selecionado, mes_selecionado, df_export, df_import, ordena) ==
    LET ha_dados == Len(df_export) # 0 \/ Len(df_import) # 0
    IN  IF ano_selecionado = TodosOsAnos THEN
            IF ha_dados
            THEN [ramo |-> "anual", exibida |-> TRUE,
                  linhas |-> BalancaAnual(df_export, df_import, ordena)]
            ELSE [ramo |-> "anual", exibida |-> FALSE]
        ELSE IF mes_selecionado = TodosOsMeses THEN
            IF ha_dados
            THEN [ramo |-> "mensal", exibida |-> TRUE,
                  metricas |-> Metricas(df_export, df_import),
                  linhas |-> BalancaMensal(df_export, df_import, ordena)]
            ELSE [ramo |-> "mensal", exibida |-> FALSE]
        ELSE [ramo |-> "mes", exibida |-> TRUE,
              metricas |-> Metricas(df_export, df_import)]

-----------------------------------------------------------------------------
(* main_dashboard as a whole, src/app.py:79-214 (without the logout button) *)

InfoExport == "Nao ha dados de exportacao para a selecao atual."
InfoImport == "Nao ha dados de importacao para a selecao atual."
WarningRelatorio == "Nao ha dados para gerar o relatorio com os filtros atuais."

\* what the run displays, once the selections, the filtered flows and the two
\* ranking tables are known (lines 129-208)
Painel(usuario, lista, opcoes, mun, ano, mes, df_export, df_import, periodo, t_exp, t_imp, ordena) ==
    [pagina |-> "dashboard",
     usuario |-> usuario,
     lista_municipios |-> lista,
     opcoes_ano |-> opcoes,
     municipio_selecionado |-> mun,
     ano_selecionado |-> ano,
     mes_selecionado |-> mes,
     filtro_mes_aplicado |-> FiltroMesAplicado(ano, mes),
     df_export |-> df_export,
     df_import |-> df_import,
     periodo_str |-> periodo,
     balanca |-> BalancaComercial(ano, mes, df_export, df_import, ordena),
     tabela_exp |-> t_exp,
     tabela_imp |-> t_imp,
     avisos |-> (IF Empty(t_exp) THEN {InfoExport} ELSE {})
                \cup (IF Empty(t_imp) THEN {InfoImport} ELSE {})
                \cup (IF ~Empty(t_exp) \/ ~Empty(t_imp)
                      THEN {} ELSE {WarningRelatorio}),
     download |-> IF ~Empty(t_exp) \/ ~Empty(t_imp)
                  THEN <<gerar_arquivo_excel(t_exp, t_imp, mun, periodo)>>
                  ELSE <<>>]

\* The statements of main_dashboard in their order; each step hands its
\* results to the next one.
main_dashboard(ss, w, exp_o, imp_o, ordena) ==
    IF "username" \notin ss.chaves
    THEN [pagina |-> "excecao", erro |-> "KeyError: 'username'"]
    ELSE
    LET Rankings(lista, opcoes, mun, ano, mes, df_export, df_import) ==
            Painel(ss.username, lista, opcoes, mun, ano, mes, df_export, df_import,
                   PeriodoStr(ano, mes),
                   criar_tabela_top10_com_totais(df_export),
                   criar_tabela_top10_com_totais(df_import), ordena)
        Filtragem(lista, opcoes, mun, ano, mes) ==
            Rankings(lista, opcoes, mun, ano, mes,
                     Filtrar(exp_o, mun, ano, mes), Filtrar(imp_o, mun, ano, mes))
        SelecaoMes(lista, opcoes, mun, ano) ==
            Filtragem(lista, opcoes, mun, ano, MesSelecionado(ano, w.mes))
        Selecao(lista, opcoes) ==
            SelecaoMes(lista, opcoes,
                       Selectbox(lista, w.municipio, NenhumMunicipio),
                       Selectbox(opcoes, w.ano, TodosOsAnos))
    IN  Selecao(ListaMunicipios(exp_o, imp_o),
                <<TodosOsAnos>> \o AnosDisponiveis(exp_o, imp_o))

\* the selectbox values Streamlit keeps for the next run: those of the
\* selectboxes this run rendered
WidgetsPadrao == [municipio |-> "", ano |-> TodosOsAnos, mes |-> TodosOsMeses]

WidgetsDe(t) ==
    [municipio |-> t.municipio_selecionado, ano |-> t.ano_selecionado,
     mes |-> t.mes_selecionado]

-----------------------------------------------------------------------------
(* login_form and the script body, src/app.py:217-240 *)

\* Mutation of CredenciaisValidas: the password is not compared.
CredenciaisSoEmail(email, password) == email \in DOMAIN VALID_CREDENTIALS

\* line 225
CredenciaisValidas(email, password) ==
    email \in DOMAIN VALID_CREDENTIALS /\ password = VALID_CREDENTIALS[email]

SessaoVazia == [chaves |-> {}, authenticated |-> FALSE, username |-> ""]

\* lines 234-235
ComAuthenticated(ss) ==
    IF "authenticated" \in ss.chaves THEN ss
    ELSE [ss EXCEPT !.chaves = @ \cup {"authenticated"}, !.authenticated = FALSE]

\* lines 226-227
AposLogin(ss, email) ==
    [chaves |-> ss.chaves \cup {"authenticated", "username"},
     authenticated |-> TRUE, username |-> email]

\* lines 212-213
AposLogout(ss) ==
    [chaves |-> (ss.chaves \cup {"authenticated"}) \ {"username"},
     authenticated |-> FALSE, username |-> ""]

Chamada(fn, ss) ==
    [fn |-> fn, authenticated |-> ss.authenticated,
     tem_username |-> "username" \in ss.chaves]

\* One execution of the script for the interaction ev, followed, when the
\* script calls st.rerun(), by the execution that call starts.
ExecutarScript(ss0, w, ev, exp_o, imp_o, ordena) ==
    LET \* authenticated: main_dashboard, then the "Sair" button (lines 211-214)
        Autenticado(ss, t) ==
            IF t.pagina = "excecao"
            THEN [session_state |-> ss, widgets |-> w,
                  chamadas |-> <<Chamada("main_dashboard", ss)>>, tela |-> t]
            ELSE IF ev.tipo = "sair"
            THEN [session_state |-> AposLogout(ss), widgets |-> WidgetsPadrao,
                  chamadas |-> <<Chamada("main_dashboard", ss),
                                 Chamada("login_form", AposLogout(ss))>>,
                  tela |-> [pagina |-> "login", erro |-> FALSE]]
            ELSE [session_state |-> ss, widgets |-> WidgetsDe(t),
                  chamadas |-> <<Chamada("main_dashboard", ss)>>, tela |-> t]
        \* a successful login: st.rerun() shows the dashboard with fresh widgets
        Entrou(ss, ss2, t) ==
            [session_state |-> ss2,
             widgets |-> IF t.pagina = "excecao" THEN WidgetsPadrao ELSE WidgetsDe(t),
             chamadas |-> <<Chamada("login_form", ss), Chamada("main_dashboard", ss2)>>,
             tela |-> t]
        Script(ss) ==
            IF ss.authenticated
            THEN Autenticado(ss, main_dashboard(ss, w, exp_o, imp_o, ordena))
            ELSE IF ev.tipo = "login" /\ CredenciaisValidas(ev.email, ev.senha)
            THEN Entrou(ss, AposLogin(ss, ev.email),
                        main_dashboard(AposLogin(ss, ev.email), WidgetsPadrao,
                                       exp_o, imp_o, ordena))
            ELSE [session_state |-> ss, widgets |-> WidgetsPadrao,
                  chamadas |-> <<Chamada("login_form", ss)>>,
                  tela |-> [pagina |-> "login", erro |-> ev.tipo = "login"]]
    IN  Script(ComAuthenticated(ss0))

-----------------------------------------------------------------------------
(* Ranking scenario: df_filtrado is built, then the function is applied *)

Registro(mun, ano, mes, prod, val) ==
    [NOME_MUN |-> mun, CO_ANO |-> ano, CO_MES |-> mes,
     NO_SH4_POR |-> prod, VL_FOB |-> val]

\* n January records of n distinct products with unsorted positive values
\* 4,2,5,3,1,4,2,... (the records appended later are February's and may be 0)
BaseDf(n) == [i \in 1..n |->
                 Registro("Curitiba", 2022, 1, ProdutoNomes[i], ((i * 3) % 5) + 1)]

NumProdutos(df) == Cardinality(Unicos(df, "NO_SH4_POR"))

\* an appended record repeats the first product or the latest one, or brings a new one
ProdutosCandidatos(df) ==
    {ProdutoNomes[i] : i \in {1, Max(1, NumProdutos(df)),
                              Min(NumProdutos(df) + 1, MaxProdutos)}}

SemSessao ==
    /\ df_export_original = <<>>
    /\ df_import_original = <<>>
    /\ pandas_concat_ordena = TRUE
    /\ session_state = SessaoVazia
    /\ widgets = WidgetsPadrao
    /\ evento = [tipo |-> "nenhum"]
    /\ chamadas = <<>>
    /\ tela = [pagina |-> "nenhuma"]
    /\ mes_anterior = TodosOsMeses

InitRank ==
    /\ SemSessao
    /\ \E n \in 0..MaxBase : df_filtrado = BaseDf(n)
    /\ tabela_final = DataFrameVazio
    /\ fase = "entrada"

AdicionarRegistro ==
    /\ fase = "entrada"
    /\ Len(Onde(df_filtrado, "CO_MES", 2)) < MaxAppend
    /\ \E p \in ProdutosCandidatos(df_filtrado), v \in 0..MaxVal :
          df_filtrado' = Append(df_filtrado, Registro("Curitiba", 2022, 2, p, v))
    /\ UNCHANGED <<dataVars, dashVars, tabela_final, fase>>

ChamarCriarTabela ==
    /\ fase = "entrada"
    /\ tabela_final' = criar_tabela_top10_com_totais(df_filtrado)
    /\ fase' = "retornou"
    /\ UNCHANGED <<dataVars, dashVars, df_filtrado>>

NextRank == AdicionarRegistro \/ ChamarCriarTabela

SpecRank == InitRank /\ [][NextRank]_vars

-----------------------------------------------------------------------------
(* The CSV files.  carregar_dados() reads them once; the cached pair never  *)
(* changes afterwards, so the files' contents are chosen in the initial     *)
(* state.                                                                   *)

\* the sequences of exactly k elements of R
SeqsDe(R, k) == IF k = 0 THEN {<<>>} ELSE [1..k -> R]

\* the pairs (export rows, import rows) with at most n rows together
ParesDeTabelas(R, n) ==
    UNION {UNION {SeqsDe(R, k) \X SeqsDe(R, j) : j \in 0..(n - k)} : k \in 0..n}

Anos == {2021, 2022}

\* interactive session: two municipalities, two years
RegistrosDash ==
    {Registro(m, a, 1, ProdutoNomes[1], 1) :
        m \in {MunicipioNomes[i] : i \in DOMAIN MunicipioNomes}, a \in Anos}

\* single rendering: Curitiba trades product P101 (value 1) in both years and
\* product P102 (value 2) in December 2021; Apucarana trades P101 in January
\* 2022
RegistrosView ==
    {Registro(MunicipioNomes[2], a, m, ProdutoNomes[1], 1) : a \in Anos, m \in {1, 12}}
    \cup {Registro(MunicipioNomes[2], 2021, 12, ProdutoNomes[2], 2),
          Registro(MunicipioNomes[1], 2022, 1, ProdutoNomes[1], 1)}

\* the months a user picks in the model
MesesEscolhiveis == {TodosOsMeses, "Janeiro", "Fevereiro", "Dezembro"}

\* what is typed into the login form in the model
EmailsDigitados == DOMAIN VALID_CREDENTIALS \cup {"visitante@seic.pr.gov.br"}
SenhasDigitadas == {VALID_CREDENTIALS[e] : e \in DOMAIN VALID_CREDENTIALS} \cup {"errada"}

MesDaTela == IF tela.pagina = "dashboard" THEN tela.mes_selecionado ELSE TodosOsMeses

\* a script run triggered by the interaction ev, the widget values being w
Executar(w, ev) ==
    \E r \in {ExecutarScript(session_state, w, ev, df_export_original,
                            df_import_original, pandas_concat_ordena)} :
        /\ session_state' = r.session_state
        /\ widgets' = r.widgets
        /\ chamadas' = r.chamadas
        /\ tela' = r.tela
        /\ evento' = ev
        /\ mes_anterior' = MesDaTela
        /\ UNCHANGED <<dataVars, rankVars>>

-----------------------------------------------------------------------------
(* Interactive session *)

InitDash ==
    /\ \E par \in ParesDeTabelas(RegistrosDash, MaxLinhasDash) :
          /\ df_export_original = par[1]
          /\ df_import_original = par[2]
    /\ pandas_concat_ordena \in BOOLEAN
    /\ session_state = SessaoVazia
    /\ widgets = WidgetsPadrao
    /\ evento = [tipo |-> "nenhum"]
    /\ chamadas = <<>>
    /\ tela = [pagina |-> "nenhuma"]
    /\ mes_anterior = TodosOsMeses
    /\ df_filtrado = <<>>
    /\ tabela_final = DataFrameVazio
    /\ fase = "sessao"

\* the page is opened, or rerun from the menu
Rerun ==
    /\ fase = "sessao"
    /\ Executar(widgets, [tipo |-> "rerun"])
    /\ UNCHANGED fase

\* "Entrar" is pressed in the login form
SubmeterLogin ==
    /\ fase = "sessao"
    /\ tela.pagina = "login"
    /\ \E email \in EmailsDigitados, senha \in SenhasDigitadas :
          Executar(widgets, [tipo |-> "login", email |-> email, senha |-> senha])
    /\ UNCHANGED fase

SelecionarMunicipio ==
    /\ fase = "sessao"
    /\ tela.pagina = "dashboard"
    /\ \E i \in DOMAIN tela.lista_municipios :
          /\ tela.lista_municipios[i] # widgets.municipio
          /\ Executar([widgets EXCEPT !.municipio = tela.lista_municipios[i]],
                      [tipo |-> "selecao"])
    /\ UNCHANGED fase

SelecionarAno ==
    /\ fase = "sessao"
    /\ tela.pagina = "dashboard"
    /\ \E i \in DOMAIN tela.opcoes_ano :
          /\ tela.opcoes_ano[i] # widgets.ano
          /\ Executar([widgets EXCEPT !.ano = tela.opcoes_ano[i]],
                      [tipo |-> "selecao"])
    /\ UNCHANGED fase

\* the month selectbox is on the page only under a specific year
SelecionarMes ==
    /\ fase = "sessao"
    /\ tela.pagina = "dashboard"
    /\ tela.ano_selecionado # TodosOsAnos
    /\ \E mes \in MesesEscolhiveis :
          /\ mes # widgets.mes
          /\ Executar([widgets EXCEPT !.mes = mes], [tipo |-> "selecao"])
    /\ UNCHANGED fase

\* the "Sair" button
ClicarSair ==
    /\ fase = "sessao"
    /\ tela.pagina = "dashboard"
    /\ Executar(widgets, [tipo |-> "sair"])
    /\ UNCHANGED fase

NextDash ==
    \/ Rerun
    \/ SubmeterLogin
    \/ SelecionarMunicipio
    \/ SelecionarAno
    \/ SelecionarMes
    \/ ClicarSair

Spec == InitDash /\ [][NextDash]_vars

-----------------------------------------------------------------------------
(* Single rendering of the dashboard by a logged-in user, over larger files *)

InitView ==
    /\ \E par \in ParesDeTabelas(RegistrosView, MaxLinhasView) :
          /\ df_export_original = par[1]
          /\ df_import_original = par[2]
    /\ pandas_concat_ordena \in BOOLEAN
    /\ session_state = AposLogin(ComAuthenticated(SessaoVazia),
                                 "especializa@seic.pr.gov.br")
    /\ widgets = WidgetsPadrao
    /\ evento = [tipo |-> "nenhum"]
    /\ chamadas = <<>>
    /\ tela = [pagina |-> "nenhuma"]
    /\ mes_anterior = TodosOsMeses
    /\ df_filtrado = <<>>
    /\ tabela_final = DataFrameVazio
    /\ fase = "pronto"

\* the script runs with the three selectboxes set by the user
Visualizar ==
    /\ fase = "pronto"
    /\ \E ano \in {TodosOsAnos} \cup Anos, mes \in MesesEscolhiveis :
          Executar([municipio |-> MunicipioNomes[2], ano |-> ano, mes |-> mes],
                   [tipo |-> "selecao"])
    /\ fase' = "exibido"

NextView == Visualizar

SpecView == InitView /\ [][NextView]_vars

-----------------------------------------------------------------------------
(* Properties of the ranking table *)

Retornou == fase = "retornou"
Linhas == tabela_final.rows
Valor(linha) == linha["Valor (US$)"]
LinhasRanqueadas == SelectSeq(Linhas, LAMBDA l : l["#"] # "")
LinhaDemais == Linhas[Len(Linhas) - 1]
LinhaTotal == Linhas[Len(Linhas)]

RECURSIVE SomaCelulas(_)
SomaCelulas(ls) == IF ls = <<>> THEN 0 ELSE Valor(ls[1]) + SomaCelulas(Tail(ls))

\* the summed VL_FOB of one product, and of a set of products
TotalProduto(df, p) == SumVL(Onde(df, "NO_SH4_POR", p))
TotalProdutos(df, P) == SumVL(SelectSeq(df, LAMBDA r : r.NO_SH4_POR \in P))

\* C1: for a non-empty input, the ranked rows' values plus the value of the
\* 'Demais Produtos' row equal the value of the 'TOTAL' row exactly, and the
\* TOTAL value is the sum of VL_FOB over all input records.
C1_RankedPlusOthersIsTotal ==
    (Retornou /\ df_filtrado # <<>>) =>
        /\ LinhaDemais["Produto"] = "Demais Produtos"
        /\ LinhaTotal["Produto"] = "TOTAL"
        /\ SomaCelulas(LinhasRanqueadas) + Valor(LinhaDemais) = Valor(LinhaTotal)
        /\ Valor(LinhaTotal) = SumVL(df_filtrado)

\* more than ten products, duplicated records, a positive residual
C1_Witness ==
    /\ Retornou
    /\ NumProdutos(df_filtrado) > TopN
    /\ Len(df_filtrado) > NumProdutos(df_filtrado)
    /\ Valor(LinhaDemais) > 0

\* C6: the table has zero rows exactly when the input is empty; a non-empty
\* input whose values are all zero gives the full shape (ranked rows, Demais
\* Produtos, TOTAL) with every value 0 and every percent 0; when the total is
\* positive the TOTAL row's percent is 100.
C6_EmptyAndZeroPolicy ==
    Retornou =>
        /\ (Len(Linhas) = 0) <=> (df_filtrado = <<>>)
        /\ Empty(tabela_final) <=> (df_filtrado = <<>>)
        /\ (df_filtrado # <<>> /\ SumVL(df_filtrado) = 0) =>
              /\ Len(Linhas) = Min(TopN, NumProdutos(df_filtrado)) + 2
              /\ tabela_final.columns = ColunasTabela
              /\ \A i \in DOMAIN Linhas :
                    /\ Valor(Linhas[i]) = 0
                    /\ Linhas[i]["Percentual (%)"] = <<0, 1>>
        /\ (df_filtrado # <<>> /\ SumVL(df_filtrado) > 0) =>
              LinhaTotal["Percentual (%)"] = <<100, 1>>

\* a non-empty input of two products whose values are all zero
C6_Witness ==
    /\ Retornou
    /\ NumProdutos(df_filtrado) = 2
    /\ SumVL(df_filtrado) = 0
    /\ Len(Linhas) = 4

\* C9: for n distinct products the table has k + 2 rows, k = min(10, n): the k
\* products with the largest sums in non-increasing order, ranked "1".."k",
\* none of the unranked products having a larger sum than a ranked one; then
\* the Demais Produtos row, with empty rank and the sum of the unranked
\* products (0 when n <= 10); then the TOTAL row with empty rank.
C9_TableShape ==
    (Retornou /\ df_filtrado # <<>>) =>
        LET n == NumProdutos(df_filtrado)
            k == Min(TopN, n)
            ranqueados == {Linhas[i]["Produto"] : i \in 1..k}
            fora == Unicos(df_filtrado, "NO_SH4_POR") \ ranqueados
        IN  /\ Len(Linhas) = k + 2
            /\ Cardinality(ranqueados) = k
            /\ \A i \in 1..k :
                  /\ Linhas[i]["#"] = ToString(i)
                  /\ Linhas[i]["Produto"] \in Unicos(df_filtrado, "NO_SH4_POR")
                  /\ Valor(Linhas[i]) = TotalProduto(df_filtrado, Linhas[i]["Produto"])
                  /\ i < k => Valor(Linhas[i]) >= Valor(Linhas[i + 1])
                  /\ \A p \in fora : TotalProduto(df_filtrado, p) <= Valor(Linhas[i])
            /\ Linhas[k + 1]["#"] = ""
            /\ Linhas[k + 1]["Produto"] = "Demais Produtos"
            /\ Valor(Linhas[k + 1]) = TotalProdutos(df_filtrado, fora)
            /\ n <= TopN => Valor(Linhas[k + 1]) = 0
            /\ Linhas[k + 2]["#"] = ""
            /\ Linhas[k + 2]["Produto"] = "TOTAL"

\* twelve products: ten ranked, two summed into a positive residual
C9_Witness ==
    /\ Retornou
    /\ NumProdutos(df_filtrado) = TopN + 2
    /\ Len(Linhas) = TopN + 2
    /\ Valor(Linhas[TopN + 1]) > 0

\* fewer than ten products: the residual row is emitted with value 0
C9_WitnessFew ==
    /\ Retornou
    /\ NumProdutos(df_filtrado) = 3
    /\ Len(Linhas) = 5
    /\ Valor(Linhas[4]) = 0

-----------------------------------------------------------------------------
(* Properties of the dashboard *)

NoDashboard == tela.pagina = "dashboard"
Autenticada(ss) == "authenticated" \in ss.chaves /\ ss.authenticated
ConjuntoDe(seq) == {seq[i] : i \in DOMAIN seq}
SelecaoValida == NoDashboard /\ tela.municipio_selecionado \in ConjuntoDe(tela.lista_municipios)
AmbosVazios == Len(tela.df_export) = 0 /\ Len(tela.df_import) = 0

\* the records of a flow that a (municipality, year, month name) selection keeps;
\* TodosOsAnos and TodosOsMeses keep every year and every month
Recorte(df_original, municipio, ano, mes) ==
    SelectSeq(df_original,
              LAMBDA r : /\ r.NOME_MUN = municipio
                         /\ (ano = TodosOsAnos \/ r.CO_ANO = ano)
                         /\ (mes = TodosOsMeses \/ meses_map[r.CO_MES] = mes))

\* C2: whenever the selected year is "Todos os anos" the effective month is
\* "Todos os meses", whatever month was chosen before, and neither flow is
\* filtered by month; the month predicate is applied exactly when a specific
\* year and a specific month are selected.
C2_MonthOnlyWithinYear ==
    NoDashboard =>
        /\ tela.ano_selecionado = TodosOsAnos =>
              /\ tela.mes_selecionado = TodosOsMeses
              /\ ~tela.filtro_mes_aplicado
              /\ tela.df_export = Recorte(df_export_original, tela.municipio_selecionado,
                                          TodosOsAnos, TodosOsMeses)
              /\ tela.df_import = Recorte(df_import_original, tela.municipio_selecionado,
                                          TodosOsAnos, TodosOsMeses)
        /\ tela.filtro_mes_aplicado <=>
              (tela.ano_selecionado # TodosOsAnos /\ tela.mes_selecionado # TodosOsMeses)
        /\ tela.df_export = Recorte(df_export_original, tela.municipio_selecionado,
                                    tela.ano_selecionado, tela.mes_selecionado)
        /\ tela.df_import = Recorte(df_import_original, tela.municipio_selecionado,
                                    tela.ano_selecionado, tela.mes_selecionado)

\* a month had been chosen, then the year went back to "Todos os anos", over
\* a municipality that has records
C2_Witness ==
    /\ NoDashboard
    /\ evento.tipo = "selecao"
    /\ mes_anterior = "Dezembro"
    /\ tela.ano_selecionado = TodosOsAnos
    /\ Len(tela.df_export) > 0

LinhasBalanca == tela.balanca.linhas
AnosDosFluxos == Unicos(tela.df_export, "CO_ANO") \cup Unicos(tela.df_import, "CO_ANO")

\* C3 (as claimed): in the multi-year view every year of either flow appears
\* exactly once, the rows are sorted by year ascending, a year missing from a
\* flow has total 0 for that flow, and net = export total - import total.
C3_YearlyBalanceSorted ==
    (NoDashboard /\ tela.balanca.ramo = "anual" /\ tela.balanca.exibida) =>
        /\ {LinhasBalanca[i].indice : i \in DOMAIN LinhasBalanca} = AnosDosFluxos
        /\ Len(LinhasBalanca) = Cardinality(AnosDosFluxos)
        /\ \A i \in DOMAIN LinhasBalanca :
              /\ LinhasBalanca[i].Total_Exportado =
                    SumVL(Onde(tela.df_export, "CO_ANO", LinhasBalanca[i].indice))
              /\ LinhasBalanca[i].Total_Importado =
                    SumVL(Onde(tela.df_import, "CO_ANO", LinhasBalanca[i].indice))
              /\ LinhasBalanca[i].Saldo_Comercial =
                    LinhasBalanca[i].Total_Exportado - LinhasBalanca[i].Total_Importado
        /\ \A i, j \in DOMAIN LinhasBalanca :
              i < j => LinhasBalanca[i].indice < LinhasBalanca[j].indice

MesesCertos ==
    /\ Len(LinhasBalanca) = 12
    /\ \A m \in 1..12 :
          /\ LinhasBalanca[m].indice = meses_map[m]
          /\ LinhasBalanca[m].Total_Exportado = SumVL(Onde(tela.df_export, "CO_MES", m))
          /\ LinhasBalanca[m].Total_Importado = SumVL(Onde(tela.df_import, "CO_MES", m))
          /\ LinhasBalanca[m].Saldo_Comercial =
                LinhasBalanca[m].Total_Exportado - LinhasBalanca[m].Total_Importado

RamoMensal == SelecaoValida /\ tela.balanca.ramo = "mensal"

SinaisDeVazio ==
    /\ Empty(tela.tabela_exp)
    /\ Empty(tela.tabela_imp)
    /\ tela.avisos = {InfoExport, InfoImport, WarningRelatorio}
    /\ tela.download = <<>>

MetricasZero ==
    /\ tela.balanca.metricas.exportado = 0
    /\ tela.balanca.metricas.importado = 0
    /\ tela.balanca.metricas.saldo = 0

C7_RegionsOfBothFlows ==
    NoDashboard =>
        ConjuntoDe(tela.lista_municipios) =
            Unicos(df_export_original, "NOME_MUN") \cup Unicos(df_import_original, "NOME_MUN")

Planilhas == {tela.download[1].Exportacoes, tela.download[1].Importacoes}
TemLinha(sheet, r) == r \in DOMAIN sheet /\ Len(sheet[r]) > 0
Celula1(sheet, r, texto) == TemLinha(sheet, r) /\ sheet[r][1] = texto
\* the last row of the metadata block, the row where the table's header is
UltimaLinhaInfo(sheet) == CHOOSE r \in DOMAIN sheet : Celula1(sheet, r, "Periodo")
PrimeiraLinhaTabela(sheet) == CHOOSE r \in DOMAIN sheet : Celula1(sheet, r, "#")
TemTabela(sheet) == \E r \in DOMAIN sheet : Celula1(sheet, r, "#")
LinhasEmBranco(sheet) ==
    Cardinality({r \in DOMAIN sheet :
                    /\ r > UltimaLinhaInfo(sheet)
                    /\ r < PrimeiraLinhaTabela(sheet)
                    /\ ~TemLinha(sheet, r)})

LayoutComum(sheet) ==
    /\ sheet[0] = <<"Filtro", "Selecao">>
    /\ sheet[1] = <<"Municipio", tela.municipio_selecionado>>
    /\ sheet[2] = <<"Periodo", tela.periodo_str>>
    /\ UltimaLinhaInfo(sheet) = 2
    /\ TemTabela(sheet) =>
          /\ PrimeiraLinhaTabela(sheet) = StartrowTabela
          /\ sheet[StartrowTabela] = <<"#", "Produto", "Valor (US$)", "Percentual (%)">>

TabelaNaPlanilha(sheet, tabela) ==
    /\ TemTabela(sheet) <=> ~Empty(tabela)
    /\ ~Empty(tabela) =>
          /\ DOMAIN sheet = 0..(StartrowTabela + Len(tabela.rows))
          /\ \A i \in DOMAIN tabela.rows :
                /\ sheet[StartrowTabela + i][1] = tabela.rows[i]["#"]
                /\ sheet[StartrowTabela + i][2] = tabela.rows[i]["Produto"]
                /\ sheet[StartrowTabela + i][3] = tabela.rows[i]["Valor (US$)"]
                /\ sheet[StartrowTabela + i][4] = tabela.rows[i]["Percentual (%)"]

TemDownload == NoDashboard /\ Len(tela.download) = 1

\* C8 (as claimed): in both sheets the table starts at a fixed row such that
\* exactly 3 blank rows lie between the last metadata row and the table.
C8_Original ==
    TemDownload => \A sheet \in Planilhas : TemTabela(sheet) => LinhasEmBranco(sheet) = 3

\* C8 (amended): in both sheets the metadata block (header, municipality row,
\* period row) occupies rows 0-2 and the table's header is written at row 4,
\* its data from row 5, whatever the table holds, so exactly 1 blank row
\* (row 3) lies between the last metadata row and the table; the columns are
\* rank, label, value, percent.
C8_ExcelLayout ==
    TemDownload =>
        /\ \A sheet \in Planilhas :
              /\ LayoutComum(sheet)
              /\ TemTabela(sheet) => LinhasEmBranco(sheet) = 1
        /\ TabelaNaPlanilha(tela.download[1].Exportacoes, tela.tabela_exp)
        /\ TabelaNaPlanilha(tela.download[1].Importacoes, tela.tabela_imp)

\* both sheets hold a table, of different lengths
C8_Witness ==
    /\ TemDownload
    /\ Len(tela.tabela_exp.rows) = 4
    /\ Len(tela.tabela_imp.rows) = 3

C10_Estado ==
    /\ \A i \in DOMAIN chamadas :
          chamadas[i].fn = "main_dashboard" =>
              (chamadas[i].authenticated /\ chamadas[i].tem_username)
    /\ tela.pagina # "excecao"
    /\ NoDashboard => (Autenticada(session_state) /\ tela.usuario = session_state.username)
    /\ Autenticada(session_state) =>
          /\ "username" \in session_state.chaves
          /\ session_state.username \in DOMAIN VALID_CREDENTIALS
    /\ ~Autenticada(session_state) => "username" \notin session_state.chaves
    /\ evento.tipo = "sair" => ~Autenticada(session_state)

C10_Passo ==
    /\ (~Autenticada(session_state) /\ Autenticada(session_state')) =>
          /\ evento'.tipo = "login"
          /\ evento'.email \in DOMAIN VALID_CREDENTIALS
          /\ evento'.senha = VALID_CREDENTIALS[evento'.email]
          /\ session_state'.username = evento'.email
    /\ (Autenticada(session_state) /\ Autenticada(session_state')) =>
          session_state'.username = session_state.username

\* C10: main_dashboard runs only with 'authenticated' true and 'username'
\* present; 'authenticated' becomes true only by a login submission whose
\* email and password are an entry of VALID_CREDENTIALS, and 'username' is
\* then, and stays, that email; after a logout 'authenticated' is false and
\* 'username' absent until the next successful login.
C10_SessionAuth == [](C10_Estado) /\ [][C10_Passo]_vars

\* a user logged in and has just logged out
C10_Witness ==
    /\ evento.tipo = "sair"
    /\ tela.pagina = "login"
    /\ chamadas[1].fn = "main_dashboard"
    /\ "username" \notin session_state.chaves

====
